---- MODULE Spec2Model ----
(***************************************************************************)
(* The n8n nodes of this repository (DeepSeek, Groq, VercelAI and the      *)
(* variants of the Google Generative AI node) as state machines: the       *)
(* execute loop of each node, its input normalizer, its output normalizer  *)
(* and its error handling.                                                 *)
(***************************************************************************)
EXTENDS Integers, Sequences, FiniteSets, TLC

\* ------------------------------------------------------------------------
\* Bounds of the model
\* ------------------------------------------------------------------------

\* Longest input item list of one execute run.
MaxItems == 2

\* Longest raw text the SDK returns to the output normalizer.
MaxTextLen == 4

\* Longest text before, inside, between and after two reasoning sections.
MaxPartLen == 1

\* ------------------------------------------------------------------------
\* Text: a JavaScript string is a sequence of characters
\* ------------------------------------------------------------------------

SP == " "
QUOTE == "\""
BACKSLASH == "\\"

\* The value JavaScript calls undefined.
Undefined == [t |-> "undefined"]

IsWhite(c) == c = SP

RECURSIVE TrimStart(_)
\* String.prototype.trimStart
TrimStart(s) ==
    IF s = <<>> THEN <<>>
    ELSE IF IsWhite(Head(s)) THEN TrimStart(Tail(s)) ELSE s

RECURSIVE TrimEnd(_)
\* String.prototype.trimEnd
TrimEnd(s) ==
    IF s = <<>> THEN <<>>
    ELSE IF IsWhite(s[Len(s)]) THEN TrimEnd(SubSeq(s, 1, Len(s) - 1)) ELSE s

\* String.prototype.trim
Trim(s) == TrimEnd(TrimStart(s))

\* ------------------------------------------------------------------------
\* JSON values and JSON text
\* ------------------------------------------------------------------------

\* A JSON value: a string, null, an array or an object (a function from its
\* keys to values).
JStr(s) == [t |-> "str", v |-> s]
JNull == [t |-> "null"]
JNum(n) == [t |-> "num", v |-> n]
JArr(xs) == [t |-> "arr", v |-> xs]
JObj(f) == [t |-> "obj", v |-> f]

\* JSON text is a sequence of tokens; a string token holds the characters
\* between its quotes, escapes included.
Tok(k) == [k |-> k, s |-> <<>>]
StrTok(s) == [k |-> "str", s |-> s]

RECURSIVE Escape(_)
\* JSON.stringify of the characters of a string: a quote and a backslash
\* are written behind a backslash.
Escape(s) ==
    IF s = <<>> THEN <<>>
    ELSE IF Head(s) \in {QUOTE, BACKSLASH}
         THEN <<BACKSLASH, Head(s)>> \o Escape(Tail(s))
         ELSE <<Head(s)>> \o Escape(Tail(s))

RECURSIVE Unescape(_)
\* JSON.parse of the characters of a string token: [ok, s]. A backslash
\* must be followed by a quote or a backslash; a bare quote cannot stand
\* inside a string.
Unescape(s) ==
    IF s = <<>> THEN [ok |-> TRUE, s |-> <<>>]
    ELSE IF Head(s) = BACKSLASH
         THEN IF Len(s) >= 2 /\ s[2] \in {QUOTE, BACKSLASH}
              THEN LET r == Unescape(SubSeq(s, 3, Len(s)))
                   IN [ok |-> r.ok, s |-> <<s[2]>> \o r.s]
              ELSE [ok |-> FALSE, s |-> <<>>]
    ELSE IF Head(s) = QUOTE THEN [ok |-> FALSE, s |-> <<>>]
    ELSE LET r == Unescape(Tail(s))
         IN [ok |-> r.ok, s |-> <<Head(s)>> \o r.s]

\* The order in which the keys of an object are written.
KeyOrder == <<"role", "content", "id", "type", "text", "properties">>

RECURSIVE Stringify(_)
RECURSIVE StringifyElems(_)
RECURSIVE StringifyMembers(_, _)

\* JSON.stringify of the elements of an array, comma separated
StringifyElems(xs) ==
    IF xs = <<>> THEN <<>>
    ELSE Stringify(Head(xs))
         \o (IF Len(xs) > 1 THEN <<Tok(",")>> ELSE <<>>)
         \o StringifyElems(Tail(xs))

\* JSON.stringify of the members of object f whose keys are KeyOrder[k..]
StringifyMembers(f, k) ==
    IF k > Len(KeyOrder) THEN <<>>
    ELSE IF KeyOrder[k] \notin DOMAIN f THEN StringifyMembers(f, k + 1)
    ELSE LET rest == StringifyMembers(f, k + 1)
         IN <<StrTok(Escape(<<KeyOrder[k]>>)), Tok(":")>>
            \o Stringify(f[KeyOrder[k]])
            \o (IF rest = <<>> THEN <<>> ELSE <<Tok(",")>>)
            \o rest

\* JSON.stringify
Stringify(x) ==
    CASE x.t = "str" -> <<StrTok(Escape(x.v))>>
      [] x.t = "null" -> <<Tok("null")>>
      [] x.t = "arr" -> <<Tok("[")>> \o StringifyElems(x.v) \o <<Tok("]")>>
      [] x.t = "obj" -> <<Tok("{")>> \o StringifyMembers(x.v, 1) \o <<Tok("}")>>

ParseFail == [ok |-> FALSE, val |-> JNull, rest |-> <<>>]

RECURSIVE ParseValue(_)
RECURSIVE ParseElems(_, _)
RECURSIVE ParseMembers(_, _)

\* The elements of an array after its "[" (acc: the elements read so far)
ParseElems(toks, acc) ==
    LET e == ParseValue(toks)
    IN IF ~e.ok \/ e.rest = <<>> THEN ParseFail
       ELSE IF Head(e.rest).k = "]"
            THEN [ok |-> TRUE, val |-> JArr(Append(acc, e.val)), rest |-> Tail(e.rest)]
       ELSE IF Head(e.rest).k = ","
            THEN ParseElems(Tail(e.rest), Append(acc, e.val))
       ELSE ParseFail

\* The members of an object after its "{" (acc: the members read so far; a
\* repeated key keeps its last value)
ParseMembers(toks, acc) ==
    IF Len(toks) < 3 \/ toks[1].k # "str" \/ toks[2].k # ":" THEN ParseFail
    ELSE LET key == Unescape(toks[1].s)
             m == ParseValue(SubSeq(toks, 3, Len(toks)))
         IN IF ~key.ok \/ Len(key.s) # 1 \/ ~m.ok \/ m.rest = <<>> THEN ParseFail
            ELSE LET f == (key.s[1] :> m.val) @@ acc
                 IN IF Head(m.rest).k = "}"
                    THEN [ok |-> TRUE, val |-> JObj(f), rest |-> Tail(m.rest)]
                    ELSE IF Head(m.rest).k = ","
                    THEN ParseMembers(Tail(m.rest), f)
                    ELSE ParseFail

\* One JSON value at the head of toks: [ok, val, rest]
ParseValue(toks) ==
    IF toks = <<>> THEN ParseFail
    ELSE LET h == Head(toks)
             r == Tail(toks)
         IN CASE h.k = "str" ->
                    LET u == Unescape(h.s)
                    IN IF u.ok THEN [ok |-> TRUE, val |-> JStr(u.s), rest |-> r]
                       ELSE ParseFail
              [] h.k = "null" -> [ok |-> TRUE, val |-> JNull, rest |-> r]
              [] h.k = "[" ->
                    IF r # <<>> /\ Head(r).k = "]"
                    THEN [ok |-> TRUE, val |-> JArr(<<>>), rest |-> Tail(r)]
                    ELSE ParseElems(r, <<>>)
              [] h.k = "{" ->
                    IF r # <<>> /\ Head(r).k = "}"
                    THEN [ok |-> TRUE, val |-> JObj(<<>>), rest |-> Tail(r)]
                    ELSE ParseMembers(r, <<>>)
              [] OTHER -> ParseFail

\* JSON.parse: [ok, val]; it throws (ok = FALSE) unless the whole text is
\* one value.
JsonParse(toks) ==
    LET p == ParseValue(toks)
    IN IF p.ok /\ p.rest = <<>> THEN [ok |-> TRUE, val |-> p.val]
       ELSE [ok |-> FALSE, val |-> JNull]

\* ------------------------------------------------------------------------
\* Errors
\* ------------------------------------------------------------------------

\* No itemIndex is attached to the error.
NoIndex == -1

\* An error object: its message, whether it is a NodeOperationError, the
\* code a transport error carries, whether it carries the provider's
\* response data, and the itemIndex attached to it. The message of an error
\* names its kind; the texts the nodes interpolate into a message are left
\* out.
Err(message, isNodeOp) ==
    [message |-> message, nodeOp |-> isNodeOp, code |-> "", response |-> FALSE,
     itemIndex |-> NoIndex]

\* new NodeOperationError(node, message)
NodeOperationError(message) == Err(message, TRUE)

\* new NodeOperationError(node, error, { itemIndex })
WithItemIndex(err, itemIndex) ==
    [err EXCEPT !.nodeOp = TRUE, !.itemIndex = itemIndex]

Ok(input) == [ok |-> TRUE, input |-> input, err |-> Err("", FALSE)]
Fail(err) == [ok |-> FALSE, input |-> Undefined, err |-> err]

\* ------------------------------------------------------------------------
\* Input normalizers
\* ------------------------------------------------------------------------

Roles == {"system", "user", "assistant"}

\* z.enum(['system', 'user', 'assistant']) on the role of a parsed element
IsRole(v) == v.t = "str" /\ Len(v.v) = 1 /\ v.v[1] \in Roles

\* A prompt mode that trims the prompt before it returns it
PromptInputTrimmed(prompt, system) ==
    [prompt |-> JStr(Trim(prompt)), system |-> JStr(system), messages |-> Undefined]

\* A messages mode that returns an empty prompt next to the message list
MessagesInputWithPrompt(messages) ==
    [prompt |-> JStr(<<>>), system |-> Undefined, messages |-> JArr(messages)]

\* The {prompt, system, messages} value buildInput returns
PromptInput(prompt, system) ==
    [prompt |-> JStr(prompt), system |-> JStr(system), messages |-> Undefined]
MessagesInput(messages) ==
    [prompt |-> Undefined, system |-> Undefined, messages |-> JArr(messages)]

\* z.array(z.object({role: z.enum([...]), content: z.string()})).safeParse:
\* the value is an array of objects, each with a role of the enumeration and
\* a string content.
ShapeStringContent(val) ==
    /\ val.t = "arr"
    /\ \A k \in 1..Len(val.v) :
          /\ val.v[k].t = "obj"
          /\ {"role", "content"} \subseteq DOMAIN val.v[k].v
          /\ IsRole(val.v[k].v.role)
          /\ val.v[k].v.content.t = "str"

\* z.array(z.object({role: z.enum([...]), content: z.any()})).safeParse:
\* the content is any value, and may be missing.
ShapeAnyContent(val) ==
    /\ val.t = "arr"
    /\ \A k \in 1..Len(val.v) :
          /\ val.v[k].t = "obj"
          /\ "role" \in DOMAIN val.v[k].v
          /\ IsRole(val.v[k].v.role)

\* parseRes.data.map((m) => ({role: m.role, content: m.content}))
RoleAndContent(elems) ==
    [k \in 1..Len(elems) |->
        [role |-> elems[k].v.role,
         content |-> IF "content" \in DOMAIN elems[k].v
                     THEN elems[k].v.content ELSE Undefined]]

\* messagesUi.map of the DeepSeek and Groq buildInput: a system row takes
\* systemContent, any other row takes content. A text field of a row that
\* is not set is the empty sequence, which is what x || '' makes of it.
TextRows(rows) ==
    [k \in 1..Len(rows) |->
        [role |-> JStr(<<rows[k].role>>),
         content |-> JStr(IF rows[k].role = "system"
                          THEN rows[k].systemContent
                          ELSE rows[k].content)]]

\* buildInput of the DeepSeek and Groq nodes
buildInput(p) ==
    IF p.inputType = "prompt" THEN Ok(PromptInput(p.prompt, p.system))
    ELSE IF p.messageAsJson
    THEN LET arr == JsonParse(p.messagesJson)
         IN IF ~arr.ok THEN Fail(NodeOperationError("MalformedInput"))
            ELSE IF ~ShapeStringContent(arr.val)
            THEN Fail(NodeOperationError("InvalidShape"))
            ELSE Ok(MessagesInput(RoleAndContent(arr.val.v)))
    ELSE Ok(MessagesInput(TextRows(p.messagesUi)))

\* A Buffer holding the bytes of data
Buffer(data) == [t |-> "buf", v |-> data]

TextPart(text) == JObj([type |-> JStr(<<"text">>), text |-> JStr(text)])
ImagePart(image) == JObj([type |-> JStr(<<"image">>), image |-> image])
FilePart(data, mimeType) ==
    JObj([type |-> JStr(<<"file">>), data |-> data, mimeType |-> JStr(<<mimeType>>)])

OctetStream == "application/octet-stream"

\* The MIME type a file row selects: the selector, or the free text when
\* the selector is 'other' and the free text is set ("" is a value not set).
SelectedMimeType(row) ==
    LET selected == IF row.mimeType # "" THEN row.mimeType ELSE OctetStream
    IN IF selected = "other" /\ row.mimeTypeOther # ""
       THEN row.mimeTypeOther ELSE selected

\* A row normalizer that does not look for the binary property
MultimodalRowUnchecked(row, binary, itemIndex) ==
    Ok([role |-> JStr(<<row.role>>),
        content |-> JArr(<<FilePart(Buffer(""), OctetStream)>>)])

\* One row of the structured list, in the buildInput of the Google node
\* with file attachments: [ok, input: the message, err]
MultimodalRow(row, binary, itemIndex) ==
    IF row.role = "system"
    THEN Ok([role |-> JStr(<<row.role>>), content |-> JStr(row.systemContent)])
    ELSE IF row.contentType = "text"
    THEN Ok([role |-> JStr(<<row.role>>), content |-> JStr(row.content)])
    ELSE LET text == IF row.content # <<>> THEN <<TextPart(row.content)>> ELSE <<>>
             selected == SelectedMimeType(row)
             binaryProperty == IF row.fileContent # "" THEN row.fileContent ELSE "data"
         IN IF row.fileDataSource = "url"
            THEN Ok([role |-> JStr(<<row.role>>),
                     content |-> JArr(text \o <<FilePart(JStr(row.fileUrl), selected)>>)])
            ELSE IF binaryProperty \notin DOMAIN binary
            THEN Fail(NodeOperationError("MissingBinaryField"))
            ELSE LET binaryData == binary[binaryProperty]
                     final == IF selected = OctetStream /\ binaryData.mimeType # ""
                              THEN binaryData.mimeType ELSE selected
                 IN Ok([role |-> JStr(<<row.role>>),
                        content |-> JArr(text \o <<FilePart(Buffer(binaryData.data), final)>>)])

RECURSIVE MultimodalRows(_, _, _)
\* The rows in order; the first row that fails ends the loop.
MultimodalRows(rows, binary, itemIndex) ==
    IF rows = <<>> THEN Ok(<<>>)
    ELSE LET m == MultimodalRow(Head(rows), binary, itemIndex)
         IN IF ~m.ok THEN m
            ELSE LET r == MultimodalRows(Tail(rows), binary, itemIndex)
                 IN IF ~r.ok THEN r ELSE Ok(<<m.input>> \o r.input)

\* buildInput of the Google node with file attachments
buildInputMultimodal(p, itemIndex) ==
    IF p.inputType = "prompt" THEN Ok(PromptInput(p.prompt, p.system))
    ELSE IF p.messageAsJson
    THEN LET arr == JsonParse(p.messagesJson)
         IN IF ~arr.ok THEN Fail(NodeOperationError("MalformedInput"))
            ELSE IF ~ShapeAnyContent(arr.val)
            THEN Fail(NodeOperationError("InvalidShape"))
            ELSE Ok(MessagesInput(RoleAndContent(arr.val.v)))
    ELSE LET built == MultimodalRows(p.messagesUi, p.binary, itemIndex)
         IN IF ~built.ok THEN built ELSE Ok(MessagesInput(built.input))

\* mimeType.startsWith('image/')
IsImageMimeType(mimeType) == mimeType \in {"image/png", "image/jpeg"}

\* One row of the structured list in the execute of the Google node whose
\* messages carry an id: [ok, input: the message, err]. id is the value of
\* `msg_${Date.now()}_${Math.random()...}` for this row.
AttachmentRow(row, binary, id) ==
    IF row.contentType = "file"
    THEN IF row.fileContent = ""
         THEN Fail(NodeOperationError("BinaryFieldNotSpecified"))
         ELSE IF row.fileContent \notin DOMAIN binary
         THEN Fail(NodeOperationError("MissingBinaryField"))
         ELSE LET binaryData == binary[row.fileContent]
                  buffer == Buffer(binaryData.data)
                  isImage == \/ row.forceImageType
                             \/ (~row.forceFileType /\ IsImageMimeType(binaryData.mimeType))
                  text == IF row.content # <<>> THEN row.content
                          ELSE <<"Please analyze this file.">>
              IN Ok([role |-> JStr(<<row.role>>),
                     content |-> JArr(<<TextPart(text),
                                        IF isImage THEN ImagePart(buffer)
                                        ELSE FilePart(buffer, binaryData.mimeType)>>),
                     id |-> JStr(<<id>>)])
    ELSE Ok([role |-> JStr(<<row.role>>), content |-> JStr(row.content),
             id |-> JStr(<<id>>)])

RECURSIVE AttachmentRows(_, _, _)
\* Promise.all over the rows: every row's checks run before the first
\* await, so the first row that fails is the rejection. ids[k] is the id
\* drawn for the k-th row.
AttachmentRows(rows, binary, ids) ==
    IF rows = <<>> THEN Ok(<<>>)
    ELSE LET m == AttachmentRow(Head(rows), binary, Head(ids))
         IN IF ~m.ok THEN m
            ELSE LET r == AttachmentRows(Tail(rows), binary, Tail(ids))
                 IN IF ~r.ok THEN r ELSE Ok(<<m.input>> \o r.input)

\* Whether x is truthy, for the values an id of a parsed message can be
Truthy(x) == x.t \in {"arr", "obj"} \/ (x.t = "str" /\ x.v # <<>>)

\* parsedMessages.map((msg) => ({...msg, id: msg.id || `msg_...`})) on the
\* value JSON.parse returned: [ok, input: the messages, err]. Anything but
\* an array has no map, and null has no id: a TypeError. The spread of a
\* string has its characters under their indexes.
MessagesWithIds(parsed, ids) ==
    IF parsed.t # "arr" THEN Fail(Err("TypeError", FALSE))
    ELSE IF \E k \in 1..Len(parsed.v) : parsed.v[k].t = "null"
    THEN Fail(Err("TypeError", FALSE))
    ELSE Ok([k \in 1..Len(parsed.v) |->
               LET msg == parsed.v[k]
                   spread == CASE msg.t = "obj" -> msg.v
                               [] msg.t = "str" ->
                                    [c \in {ToString(j - 1) : j \in 1..Len(msg.v)} |->
                                        JStr(<<msg.v[CHOOSE j \in 1..Len(msg.v) :
                                                        ToString(j - 1) = c]>>)]
                               [] msg.t = "arr" ->
                                    [c \in {ToString(j - 1) : j \in 1..Len(msg.v)} |->
                                        msg.v[CHOOSE j \in 1..Len(msg.v) :
                                                 ToString(j - 1) = c]]
                   id == IF msg.t = "obj" /\ "id" \in DOMAIN msg.v /\ Truthy(msg.v.id)
                         THEN msg.v.id ELSE JStr(<<ids[k]>>)
               IN ("id" :> id) @@ spread])

\* ------------------------------------------------------------------------
\* The nodes, their operations and the parameter values of an item
\* ------------------------------------------------------------------------

\* DeepSeek: src/nodes/DeepSeek; Groq and VercelAI: part_000;
\* GoogleGenerativeAI: src/nodes/GoogleGenerativeAI; GoogleMinimal: the
\* first node of part_001; GoogleGenerativeAi: the second node of part_001;
\* GoogleHints: the first node of part_002; GoogleZod: the second.
Nodes ==
    {"DeepSeek", "Groq", "VercelAI", "GoogleGenerativeAI", "GoogleMinimal",
     "GoogleGenerativeAi", "GoogleHints", "GoogleZod"}

\* The values the operation selector of a node offers. The node that
\* validates its operation with z.enum is also run with a value the form
\* does not offer.
Operations(n) ==
    CASE n \in {"DeepSeek", "Groq", "GoogleGenerativeAi", "GoogleHints"} ->
            {"generateText", "generateObject"}
      [] n = "GoogleZod" -> {"generateText", "generateObject", "summarize"}
      [] n \in {"VercelAI", "GoogleMinimal"} -> {"complete", "chat"}
      [] n = "GoogleGenerativeAI" -> {"complete", "chat", "generateObject"}

\* The values the model selector of a node offers
Models(n) ==
    IF n = "DeepSeek" THEN {"deepseek-chat", "deepseek-reasoner"} ELSE {"model"}

\* The apiKey of the stored credential: a key, the empty string, or no
\* apiKey at all.
AbsentKey == "<absent>"
ApiKeys == {"sk-1", "", AbsentKey}

\* !credentials?.apiKey
NoApiKey(key) == key \in {"", AbsentKey}

Hi == <<"h", "i">>
Padded == <<SP, "h", SP>>
Quoted == <<"a", QUOTE, BACKSLASH>>

\* A row of the messages list editor
Row(role, contentType, content) ==
    [role |-> role, systemContent |-> IF role = "system" THEN <<"s", "y">> ELSE <<>>,
     contentType |-> contentType, content |-> content,
     fileDataSource |-> "binary", fileContent |-> "", fileUrl |-> <<>>,
     mimeType |-> "", mimeTypeOther |-> "",
     forceImageType |-> FALSE, forceFileType |-> FALSE]

Msg(role, content) == JObj([role |-> JStr(<<role>>), content |-> content])

\* The texts of the "Messages (JSON)" field the items carry
ValidJson == Stringify(JArr(<<Msg("system", JStr(Hi)), Msg("user", JStr(Quoted))>>))
BadRoleJson == Stringify(JArr(<<Msg("user", JStr(Hi)), Msg("tool", JStr(Hi))>>))
ExtraKeyJson ==
    Stringify(JArr(<<JObj([role |-> JStr(<<"user">>), content |-> JStr(Padded),
                           id |-> JStr(<<"x">>)])>>))
NullContentJson == Stringify(JArr(<<Msg("user", JNull)>>))
SystemPartsJson ==
    Stringify(JArr(<<Msg("system", JArr(<<JObj([type |-> JStr(<<"text">>),
                                                text |-> JStr(Hi)])>>))>>))
NotArrayJson == Stringify(Msg("user", JStr(Hi)))
MalformedJson == <<Tok("["), Tok("{"), StrTok(<<"role">>)>>

\* The texts of the schema field
ValidSchemaJson == Stringify(JObj([type |-> JStr(<<"object">>)]))
BadSchemaJson == Stringify(JObj([type |-> JStr(<<"objekt">>)]))
MalformedSchemaJson == <<Tok("{"), StrTok(<<"type">>)>>

\* The binary properties of an input item
NoBinary == <<>>
PngBinary == [data |-> [mimeType |-> "image/png", data |-> "iVBOR"]]

\* The parameter values of an item that every profile starts from
BaseProfile ==
    [inputType |-> "prompt", prompt |-> Hi, system |-> <<"s">>,
     messageAsJson |-> FALSE, messagesJson |-> <<>>, messagesUi |-> <<>>,
     binary |-> NoBinary, maxTokens |-> Undefined, stream |-> FALSE,
     includeRequestBody |-> FALSE, schema |-> ValidSchemaJson,
     useSearchGrounding |-> FALSE]

PromptProfiles ==
    {[BaseProfile EXCEPT !.prompt = c[1], !.maxTokens = c[2], !.schema = c[3],
                         !.stream = c[4], !.includeRequestBody = c[4]] :
        c \in {<<Hi, Undefined, ValidSchemaJson, FALSE>>,
               <<Padded, JNum(1), ValidSchemaJson, TRUE>>,
               <<Quoted, JNum(0), ValidSchemaJson, FALSE>>,
               <<<<>>, JNum(-1), ValidSchemaJson, FALSE>>,
               <<Hi, Undefined, BadSchemaJson, FALSE>>,
               <<Hi, Undefined, MalformedSchemaJson, FALSE>>}}

JsonProfiles ==
    {[BaseProfile EXCEPT !.inputType = "messages", !.messageAsJson = TRUE,
                         !.messagesJson = j] :
        j \in {ValidJson, BadRoleJson, ExtraKeyJson, NullContentJson,
               SystemPartsJson, NotArrayJson, MalformedJson, <<>>}}

FileRow(source, property) ==
    [Row("user", "file", Hi) EXCEPT !.fileDataSource = source,
                                    !.fileContent = property,
                                    !.fileUrl = <<"u">>]

RowProfiles ==
    {[BaseProfile EXCEPT !.inputType = "messages", !.messagesUi = r[1],
                         !.binary = r[2]] :
        r \in {<<<<Row("user", "text", Hi)>>, NoBinary>>,
               <<<<Row("system", "text", Hi), Row("assistant", "text", Padded)>>, NoBinary>>,
               <<<<FileRow("binary", "data")>>, PngBinary>>,
               <<<<Row("user", "text", Hi), FileRow("binary", "data")>>, NoBinary>>,
               <<<<FileRow("url", "")>>, NoBinary>>}}

\* The parameter values an item can carry
Profiles == PromptProfiles \cup JsonProfiles \cup RowProfiles

\* ------------------------------------------------------------------------
\* One item of the execute loop, up to its remote call
\* ------------------------------------------------------------------------

\* The arguments of generateText, generateObject or streamText
Request(model, input, maxTokens, schema) ==
    [model |-> model, prompt |-> input.prompt, system |-> input.system,
     messages |-> input.messages, maxTokens |-> maxTokens, schema |-> schema]

\* What the item does before anything is awaited from the provider: it
\* calls fn with request, it throws err, or it takes no branch at all.
Call(fn, request) ==
    [tag |-> "call", fn |-> fn, request |-> request, err |-> Err("", FALSE)]
Throw(err) == [tag |-> "throw", fn |-> "", request |-> Undefined, err |-> err]
NoBranch == [tag |-> "none", fn |-> "", request |-> Undefined, err |-> Err("", FALSE)]

JsonTypes == {"object", "array", "string", "number", "integer", "boolean", "null"}

\* ajv.validateSchema, for the schemas the items carry: the schema is an
\* object whose type, when it has one, names a JSON type.
validateSchema(val) ==
    /\ val.t = "obj"
    /\ \/ "type" \notin DOMAIN val.v
       \/ /\ val.v.type.t = "str"
          /\ Len(val.v.type.v) = 1
          /\ val.v.type.v[1] \in JsonTypes

\* The generateObject branch of the DeepSeek, Groq and GoogleGenerativeAi
\* nodes: the schema is parsed and validated, then generateObject is called.
ObjectBranch(model, p, input) ==
    LET parsedSchema == JsonParse(p.schema)
    IN IF ~parsedSchema.ok THEN Throw(NodeOperationError("InvalidSchemaJson"))
       ELSE IF ~validateSchema(parsedSchema.val)
       THEN Throw(NodeOperationError("InvalidSchema"))
       ELSE Call("generateObject", Request(model, input, p.maxTokens, parsedSchema.val))

\* DeepSeek.execute, the try block of one item
DeepSeekItem(operation, model, p) ==
    LET input == buildInput(p)
    IN IF ~input.ok THEN Throw(input.err)
       ELSE IF operation = "generateText"
       THEN Call("generateText", Request(model, input.input, p.maxTokens, Undefined))
       ELSE IF operation = "generateObject" /\ model = "deepseek-chat"
       THEN ObjectBranch(model, p, input.input)
       ELSE NoBranch

\* Groq.execute, the try block of one item
GroqItem(operation, model, p) ==
    LET input == buildInput(p)
    IN IF ~input.ok THEN Throw(input.err)
       ELSE IF operation = "generateText"
       THEN Call("generateText", Request(model, input.input, p.maxTokens, Undefined))
       ELSE ObjectBranch(model, p, input.input)

\* GoogleGenerativeAi.execute, the try block of one item
GoogleGenerativeAiItem(operation, model, p, itemIndex) ==
    LET input == buildInputMultimodal(p, itemIndex)
    IN IF ~input.ok THEN Throw(input.err)
       ELSE IF operation = "generateText"
       THEN Call("generateText", Request(model, input.input, p.maxTokens, Undefined))
       ELSE ObjectBranch(model, p, input.input)

\* messagesUi.map(msg => ({role: msg.role, content: msg.content}))
PlainRows(rows) ==
    [k \in 1..Len(rows) |->
        [role |-> JStr(<<rows[k].role>>), content |-> JStr(rows[k].content)]]

\* The messages of the complete operation: the prompt as one user message
PromptMessage(prompt) == <<[role |-> JStr(<<"user">>), content |-> JStr(prompt)]>>

\* VercelAI.execute, the try block of one item after the provider is made
VercelAIItem(operation, model, p) ==
    IF operation = "complete"
    THEN Call("streamText",
              Request(model, MessagesInput(PromptMessage(p.prompt)), p.maxTokens, Undefined))
    ELSE Call("streamText",
              Request(model, MessagesInput(PlainRows(p.messagesUi)), p.maxTokens, Undefined))

\* GoogleGenerativeAI.execute of the first node of part_001, the try block
\* of one item after the provider is made
GoogleMinimalItem(operation, model, p) ==
    IF operation = "complete"
    THEN Call("generateText",
              Request(model, MessagesInput(PromptMessage(p.prompt)), p.maxTokens, Undefined))
    ELSE Call("generateText",
              Request(model, MessagesInput(PlainRows(p.messagesUi)), p.maxTokens, Undefined))

\* The prompt as one user message with an id
PromptMessageWithId(prompt, id) ==
    <<[role |-> JStr(<<"user">>), content |-> JStr(prompt), id |-> JStr(<<id>>)]>>

\* GoogleGenerativeAI.execute of src/nodes/GoogleGenerativeAI, the try
\* block of one item after the provider is made. ids are the values the
\* clock and Math.random give the message ids.
GoogleGenerativeAIItem(operation, model, p, ids) ==
    CASE operation = "complete" ->
            Call("generateText",
                 Request(model, MessagesInput(PromptMessageWithId(p.prompt, ids[1])),
                         p.maxTokens, Undefined))
      [] operation = "chat" ->
            IF p.messageAsJson
            THEN LET parsed == JsonParse(p.messagesJson)
                 IN IF ~parsed.ok THEN Throw(Err("SyntaxError", FALSE))
                    ELSE LET messages == MessagesWithIds(parsed.val, ids)
                         IN IF ~messages.ok THEN Throw(messages.err)
                            ELSE Call("generateText",
                                      Request(model, MessagesInput(messages.input),
                                              p.maxTokens, Undefined))
            ELSE LET messages == AttachmentRows(p.messagesUi, p.binary, ids)
                 IN IF ~messages.ok THEN Throw(messages.err)
                    ELSE Call("generateText",
                              Request(model, MessagesInput(messages.input),
                                      p.maxTokens, Undefined))
      [] operation = "generateObject" ->
            LET schema == JsonParse(p.schema)
            IN IF ~schema.ok THEN Throw(Err("SyntaxError", FALSE))
               ELSE Call("generateObject",
                         Request(model, [prompt |-> JStr(p.prompt), system |-> Undefined,
                                         messages |-> Undefined],
                                 Undefined, schema.val))

\* The catch around the provider block of the GoogleHints node: a DNS or
\* certificate failure gets its hint, a NodeOperationError passes, anything
\* else becomes the provider initialization error.
InnerCatch(error, itemIndex) ==
    CASE error.code = "ENOTFOUND" ->
            WithItemIndex(NodeOperationError("Could not reach Google AI API"), itemIndex)
      [] error.code = "CERT_HAS_EXPIRED" ->
            WithItemIndex(NodeOperationError("SSL Certificate error"), itemIndex)
      [] OTHER ->
            IF error.nodeOp THEN error
            ELSE WithItemIndex(
                     NodeOperationError("Failed to initialize Google AI provider"),
                     itemIndex)

\* The .catch on the generateText call of the GoogleHints node
TextCatch(error, itemIndex) ==
    WithItemIndex(
        NodeOperationError(
            CASE error.response -> "API Error"
              [] error.code = "ECONNREFUSED" -> "Failed to connect to Google AI API"
              [] error.code = "ETIMEDOUT" -> "Connection to Google AI API timed out"
              [] OTHER -> IF error.message = "api key"
                          THEN "Invalid or missing API key"
                          ELSE "Text generation failed"),
        itemIndex)

\* The provider block of the GoogleHints node for one item, before its
\* inner catch
GoogleHintsBlock(operation, model, p, ids, itemIndex) ==
    IF operation = "generateText"
    THEN IF p.inputType = "prompt"
         THEN Call("generateText",
                   Request(model, MessagesInput(PromptMessageWithId(p.prompt, ids[1])),
                           p.maxTokens, Undefined))
         ELSE IF p.messageAsJson
         THEN LET parsed == JsonParse(p.messagesJson)
                  messages == MessagesWithIds(parsed.val, ids)
              IN IF ~parsed.ok \/ ~messages.ok
                 THEN Throw(WithItemIndex(NodeOperationError("MalformedInput"), itemIndex))
                 ELSE Call("generateText",
                           Request(model, MessagesInput(messages.input),
                                   p.maxTokens, Undefined))
         ELSE LET messages == AttachmentRows(p.messagesUi, p.binary, ids)
              IN IF ~messages.ok THEN Throw(messages.err)
                 ELSE Call("generateText",
                           Request(model, MessagesInput(messages.input),
                                   p.maxTokens, Undefined))
    ELSE LET schema == JsonParse(p.schema)
         IN IF ~schema.ok THEN Throw(NodeOperationError("InvalidSchemaJson"))
            ELSE IF ~validateSchema(schema.val)
            THEN Throw(NodeOperationError("InvalidSchema"))
            ELSE Call("generateObject",
                      Request(model, [prompt |-> JStr(p.prompt), system |-> Undefined,
                                      messages |-> Undefined],
                              Undefined, schema.val))

\* GoogleGenerativeAI.execute of the first node of part_002, the outer try
\* block of one item: the credential check, then the provider block under
\* its inner catch.
GoogleHintsItem(operation, model, p, ids, key, itemIndex) ==
    IF NoApiKey(key) THEN Throw(NodeOperationError("MissingCredential"))
    ELSE LET block == GoogleHintsBlock(operation, model, p, ids, itemIndex)
         IN IF block.tag = "throw" THEN Throw(InnerCatch(block.err, itemIndex))
            ELSE block

\* messagesJsonParam?.toString() || '[]'
OrEmptyArray(text) == IF text = <<>> THEN <<Tok("["), Tok("]")>> ELSE text

\* GoogleGenerativeAI.execute of the second node of part_002, the body of
\* the loop for one item (the loop has no try)
GoogleZodItem(operation, model, p, itemIndex) ==
    IF operation \notin {"generateText", "generateObject"}
    THEN Throw(NodeOperationError("InvalidParameter"))
    ELSE IF operation = "generateObject"
    THEN Throw(NodeOperationError("NotImplemented"))
    ELSE IF p.inputType = "prompt"
    THEN Call("generateText",
              Request(model, PromptInput(p.prompt, p.system), p.maxTokens, Undefined))
    ELSE IF p.messageAsJson
    THEN LET parsedJson == JsonParse(OrEmptyArray(p.messagesJson))
         IN IF ~parsedJson.ok THEN Throw(NodeOperationError("MalformedInput"))
            ELSE IF ~ShapeAnyContent(parsedJson.val)
            THEN Throw(NodeOperationError("InvalidShape"))
            ELSE Call("generateText",
                      Request(model, MessagesInput(RoleAndContent(parsedJson.val.v)),
                              p.maxTokens, Undefined))
    ELSE LET messages == MultimodalRows(p.messagesUi, p.binary, itemIndex)
         IN IF ~messages.ok THEN Throw(messages.err)
            ELSE Call("generateText",
                      Request(model, MessagesInput(messages.input), p.maxTokens, Undefined))

\* The values the clock and Math.random give the ids of one item's messages
MessageIds == [1..2 -> {"msg_1", "msg_2"}]

\* The item of node n up to its remote call
ItemStep(n, operation, model, p, ids, key, itemIndex) ==
    CASE n = "DeepSeek" -> DeepSeekItem(operation, model, p)
      [] n = "Groq" -> GroqItem(operation, model, p)
      [] n = "GoogleGenerativeAi" -> GoogleGenerativeAiItem(operation, model, p, itemIndex)
      [] n = "VercelAI" -> VercelAIItem(operation, model, p)
      [] n = "GoogleMinimal" -> GoogleMinimalItem(operation, model, p)
      [] n = "GoogleGenerativeAI" -> GoogleGenerativeAIItem(operation, model, p, ids)
      [] n = "GoogleHints" -> GoogleHintsItem(operation, model, p, ids, key, itemIndex)
      [] n = "GoogleZod" -> GoogleZodItem(operation, model, p, itemIndex)

\* ------------------------------------------------------------------------
\* Output normalizers
\* ------------------------------------------------------------------------

\* x?.k
Field(x, k) == IF x.t = "obj" /\ k \in DOMAIN x.v THEN x.v[k] ELSE Undefined

\* x || [] and x ?? [] on a value that is undefined or an array
OrEmptyList(x) == IF x.t = "undefined" THEN JArr(<<>>) ELSE x

\* The markers of a reasoning section; each is one character of the model.
OPEN == "<think>"
CLOSE == "</think>"

\* The result generateText or generateObject resolves to
SdkResult(id, text, reasoning, object, metadata) ==
    [text |-> JStr(text), reasoning |-> reasoning, object |-> object,
     finishReason |-> JStr(<<"stop">>),
     usage |-> JObj([promptTokens |-> JNum(1), completionTokens |-> JNum(2),
                     totalTokens |-> JNum(3)]),
     response |-> JObj([id |-> JNum(id), modelId |-> JStr(<<"model">>),
                        timestamp |-> JNum(0), headers |-> JObj(<<>>)]),
     warnings |-> Undefined, toolCalls |-> Undefined, toolResults |-> Undefined,
     steps |-> Undefined, experimental_providerMetadata |-> metadata,
     request |-> JObj([body |-> JStr(<<"body">>)])]

\* The usage triplet of a result
UsageOf(result) ==
    [promptTokens |-> Field(result.usage, "promptTokens"),
     completionTokens |-> Field(result.usage, "completionTokens"),
     totalTokens |-> Field(result.usage, "totalTokens")]

\* The response metadata of a result
ResponseOf(result) ==
    JObj([id |-> Field(result.response, "id"),
          modelId |-> Field(result.response, "modelId"),
          timestamp |-> Field(result.response, "timestamp"),
          headers |-> Field(result.response, "headers")])

\* if (includeRequestBody) out.request = { body: result.request?.body }
WithRequestBody(out, result, includeRequestBody) ==
    IF includeRequestBody
    THEN ("request" :> JObj([body |-> Field(result.request, "body")])) @@ out
    ELSE out

\* formatTextResult of the DeepSeek node
formatTextResultDeepSeek(result, includeRequestBody) ==
    WithRequestBody(
        [text |-> result.text, finishReason |-> result.finishReason,
         usage |-> JObj(UsageOf(result)), response |-> ResponseOf(result),
         warnings |-> OrEmptyList(result.warnings)],
        result, includeRequestBody)

\* The index of the first c in s at or after from, or 0
IndexFrom(s, c, from) ==
    IF \E k \in from..Len(s) : s[k] = c
    THEN CHOOSE k \in from..Len(s) : s[k] = c /\ \A j \in from..(k - 1) : s[j] # c
    ELSE 0

\* The match of the greedy /<think>(.*)<\/think>/s: the first <think> and
\* the last </think> after it
thinkMatchGreedy(text) ==
    [found |-> IndexFrom(text, OPEN, 1) # 0
               /\ \E k \in (IndexFrom(text, OPEN, 1) + 1)..Len(text) : text[k] = CLOSE,
     open |-> IndexFrom(text, OPEN, 1),
     close |-> IF \E k \in (IndexFrom(text, OPEN, 1) + 1)..Len(text) : text[k] = CLOSE
               THEN CHOOSE k \in (IndexFrom(text, OPEN, 1) + 1)..Len(text) :
                       /\ text[k] = CLOSE
                       /\ \A j \in (k + 1)..Len(text) : text[j] # CLOSE
               ELSE 0]

\* text.match(/<think>(.*?)<\/think>/s): [found, open, close], the places
\* of the first <think> and of the first </think> after it
thinkMatch(text) ==
    LET open == IndexFrom(text, OPEN, 1)
        close == IF open = 0 THEN 0 ELSE IndexFrom(text, CLOSE, open + 1)
    IN [found |-> close # 0, open |-> open, close |-> close]

\* A replace with the g flag: every match and the white space after it are
\* cut out
RECURSIVE RemoveThinkAll(_)
RemoveThinkAll(text) ==
    IF ~thinkMatch(text).found THEN text
    ELSE SubSeq(text, 1, thinkMatch(text).open - 1)
         \o RemoveThinkAll(TrimStart(SubSeq(text, thinkMatch(text).close + 1, Len(text))))

\* text.replace(/<think>.*?<\/think>\s*/s, ''): the first match and the
\* white space after it are cut out
RemoveThink(text) ==
    LET m == thinkMatch(text)
    IN IF ~m.found THEN text
       ELSE SubSeq(text, 1, m.open - 1)
            \o TrimStart(SubSeq(text, m.close + 1, Len(text)))

\* The text and reasoning of formatTextResult of the Groq node
ExtractReasoning(text, reasoning) ==
    LET m == thinkMatch(text)
    IN IF IndexFrom(text, OPEN, 1) # 0 /\ m.found
       THEN [text |-> Trim(RemoveThink(text)),
             reasoning |-> JStr(Trim(SubSeq(text, m.open + 1, m.close - 1)))]
       ELSE [text |-> text, reasoning |-> reasoning]

\* formatTextResult of the Groq node
formatTextResultGroq(result, includeRequestBody) ==
    LET e == ExtractReasoning(result.text.v, result.reasoning)
        groq == Field(result.experimental_providerMetadata, "groq")
    IN WithRequestBody(
           [text |-> JStr(e.text), reasoning |-> e.reasoning,
            finishReason |-> result.finishReason,
            usage |-> JObj(UsageOf(result) @@
                           [cacheMetrics |->
                               JObj([promptCacheHitTokens |->
                                        Field(groq, "promptCacheHitTokens"),
                                     promptCacheMissTokens |->
                                        Field(groq, "promptCacheMissTokens")])]),
            response |-> ResponseOf(result),
            warnings |-> OrEmptyList(result.warnings)],
           result, includeRequestBody)

\* formatTextResult of the GoogleGenerativeAi node, and the response record
\* the GoogleGenerativeAI and GoogleHints nodes build in place
formatTextResultGoogle(result, includeRequestBody) ==
    WithRequestBody(
        [text |-> result.text, toolCalls |-> OrEmptyList(result.toolCalls),
         toolResults |-> OrEmptyList(result.toolResults),
         finishReason |-> result.finishReason,
         usage |-> JObj(UsageOf(result)), response |-> ResponseOf(result),
         steps |-> OrEmptyList(result.steps),
         warnings |-> OrEmptyList(result.warnings),
         experimental_providerMetadata |-> result.experimental_providerMetadata],
        result, includeRequestBody)

\* formatObjectResult of the DeepSeek and Groq nodes
formatObjectResult(result, includeRequestBody) ==
    WithRequestBody(
        [object |-> result.object, finishReason |-> result.finishReason,
         usage |-> JObj(UsageOf(result)), response |-> ResponseOf(result),
         warnings |-> OrEmptyList(result.warnings)],
        result, includeRequestBody)

\* A formatObjectResult that passes on an object and nothing else
formatObjectResultChecked(result, includeRequestBody) ==
    [object |-> IF result.object.t = "obj" THEN result.object ELSE Undefined,
     finishReason |-> result.finishReason]

\* formatObjectResult of the GoogleGenerativeAi node
formatObjectResultGoogle(result, includeRequestBody) ==
    WithRequestBody(
        [object |-> result.object, finishReason |-> result.finishReason,
         usage |-> JObj(UsageOf(result)), response |-> ResponseOf(result),
         warnings |-> OrEmptyList(result.warnings),
         experimental_providerMetadata |-> result.experimental_providerMetadata],
        result, includeRequestBody)

\* The record the GoogleGenerativeAI and GoogleHints nodes build from the
\* result of generateObject
GeneratedObjectRecord(result, includeRequestBody) ==
    WithRequestBody(
        [generatedObject |-> result.object, usage |-> result.usage,
         finishReason |-> result.finishReason, response |-> ResponseOf(result),
         experimental_providerMetadata |-> result.experimental_providerMetadata],
        result, includeRequestBody)

\* if (useSearchGrounding) { metadata = providerMetadata?.google; if (metadata)
\* the record gets its groundingMetadata and safetyRatings }
WithGrounding(out, result, useSearchGrounding) ==
    LET metadata == Field(result.experimental_providerMetadata, "google")
    IN IF useSearchGrounding /\ metadata # Undefined
       THEN [groundingMetadata |-> Field(metadata, "groundingMetadata"),
             safetyRatings |-> Field(metadata, "safetyRatings")] @@ out
       ELSE out

\* ------------------------------------------------------------------------
\* execute
\* ------------------------------------------------------------------------

VARIABLES
    node,            \* the node whose execute runs
    continueOnFail,  \* the node's continue-on-fail setting
    apiKey,          \* the apiKey of the stored credential
    operation,       \* the operation parameter
    nItems,          \* items.length
    pc,              \* where execute is
    i,               \* the loop index
    item,            \* the parameters of item i, while it is processed
    inflight,        \* the remote call that is awaited
    text,            \* the text gathered from the stream
    chunks,          \* the chunks the stream has yet to give
    returnData,      \* the json of the records pushed so far
    thrown,          \* the error execute threw
    provider,        \* the apiKey the provider client was made with
    fetches,         \* the number of getCredentials calls
    log,             \* per item started: how it ended and its remote calls
    arg,             \* the argument of a normalizer applied on its own
    out,             \* what the normalizer made of arg
    now              \* the reading of the clock

vars ==
    <<node, continueOnFail, apiKey, operation, nItems, pc, i, item, inflight,
      text, chunks, returnData, thrown, provider, fetches, log, arg, out, now>>

run == <<node, continueOnFail, apiKey, operation, nItems>>
pure == <<arg, out, now>>

\* The nodes that fetch the credential and make the provider before the loop
PreLoopNodes == {"DeepSeek", "Groq", "GoogleGenerativeAi", "GoogleZod"}

\* The errors a remote call can reject with
RemoteErrors ==
    {Err("RemoteError", FALSE), Err("api key", FALSE),
     [Err("RemoteError", FALSE) EXCEPT !.response = TRUE]}
    \cup {[Err("RemoteError", FALSE) EXCEPT !.code = c] :
            c \in {"ENOTFOUND", "CERT_HAS_EXPIRED", "ECONNREFUSED", "ETIMEDOUT"}}

\* The texts a remote call can answer with
ResultTexts == {Hi, <<OPEN, "r", SP, CLOSE, SP, "a">>}

\* The values a structured-generation call can answer with: objects, which
\* conform to the schema {type: object}, and null, which does not
ResultObjects == {JObj([text |-> JStr(Hi)]), JObj([text |-> JNull]), JNull}

\* The results a call of fn for item id can resolve to
Results(fn, id) ==
    IF fn = "generateObject"
    THEN {SdkResult(id, <<>>, Undefined, o, Undefined) : o \in ResultObjects}
    ELSE IF fn = "streamText"
    THEN {SdkResult(id, t, Undefined, Undefined, Undefined) : t \in {Hi, <<"a">>}}
    ELSE {SdkResult(id, t, Undefined, Undefined, Undefined) : t \in ResultTexts}

\* The chunks result.textStream gives for a text: its characters, in order
Chunks(t) == [k \in 1..Len(t) |-> <<t[k]>>]

\* A record that carries the time it was made at
RecordStamped(n, fn, result, p) ==
    [text |-> result.text, response |-> JObj([timestamp |-> JNum(now)])]

\* The json of the record a node pushes for a result
Record(n, fn, result, p) ==
    CASE n = "DeepSeek" ->
            IF fn = "generateText"
            THEN formatTextResultDeepSeek(result, p.includeRequestBody)
            ELSE formatObjectResult(result, p.includeRequestBody)
      [] n = "Groq" ->
            IF fn = "generateText"
            THEN formatTextResultGroq(result, p.includeRequestBody)
            ELSE formatObjectResult(result, p.includeRequestBody)
      [] n = "GoogleGenerativeAi" ->
            IF fn = "generateText"
            THEN formatTextResultGoogle(result, p.includeRequestBody)
            ELSE formatObjectResultGoogle(result, p.includeRequestBody)
      [] n = "GoogleMinimal" ->
            WithGrounding([text |-> result.text], result, p.useSearchGrounding)
      [] n \in {"GoogleGenerativeAI", "GoogleHints"} ->
            WithGrounding(
                IF fn = "generateText"
                THEN formatTextResultGoogle(result, p.includeRequestBody)
                ELSE GeneratedObjectRecord(result, p.includeRequestBody),
                result, p.useSearchGrounding)
      [] n = "GoogleZod" ->
            IF fn = "generateText"
            THEN formatTextResultGoogle(result, p.includeRequestBody)
            ELSE GeneratedObjectRecord(result, p.includeRequestBody)

\* The json of the record the catch of a node pushes for an error
ErrorRecord(n, error) ==
    IF n = "GoogleHints"
    THEN [error |-> [message |-> error.message], success |-> FALSE]
    ELSE [error |-> error.message]

NoItem == [p |-> BaseProfile, model |-> "", ids |-> <<>>]
NoCall == [fn |-> "", request |-> Undefined]
NoError == Err("", FALSE)
NoProvider == "<none>"

NoArg == [kind |-> "none"]
NoOut == [kind |-> "none"]

Init ==
    /\ node \in Nodes
    /\ continueOnFail \in BOOLEAN
    /\ apiKey \in ApiKeys
    /\ operation \in Operations(node)
    /\ nItems \in 0..MaxItems
    /\ pc = "start"
    /\ i = 0
    /\ item = NoItem
    /\ inflight = NoCall
    /\ text = <<>>
    /\ chunks = <<>>
    /\ returnData = <<>>
    /\ thrown = NoError
    /\ provider = NoProvider
    /\ fetches = 0
    /\ log = <<>>
    /\ arg = NoArg
    /\ out = NoOut
    /\ now = 0

\* The log l with its last entry, the item in progress, closed with how the
\* item ended: "record", "error" (an error record), "none" (no record) or
\* "thrown"; and with where its failure came from: "" (none), "local" or
\* "remote". An entry also holds the number of its remote calls, the
\* number of records pushed before the item (at), its stream option, the
\* chunks its stream gave (got), the message of the error that reached
\* the end of the loop body, the object its generateObject call resolved
\* to and, where the catches of the node rewrite errors, the error its call
\* rejected with (cause).
Ended(l, end, failure) ==
    [l EXCEPT ![Len(l)] = [@ EXCEPT !.end = end, !.failure = failure]]

\* The item ends and the loop goes on with the next one
NextItem ==
    /\ pc' = "loop"
    /\ i' = i + 1
    /\ item' = NoItem
    /\ inflight' = NoCall
    /\ text' = <<>>
    /\ chunks' = <<>>

\* execute throws error out of the loop
Throws(error, failure, l) ==
    /\ pc' = "thrown"
    /\ thrown' = error
    /\ log' = [Ended(l, "thrown", failure) EXCEPT ![Len(l)].message = error.message]
    /\ item' = NoItem
    /\ inflight' = NoCall
    /\ text' = <<>>
    /\ chunks' = <<>>
    /\ UNCHANGED <<i, returnData>>

\* The catch pushes the error record of item i and continues
Continues(error, failure, l) ==
    /\ returnData' = Append(returnData, ErrorRecord(node, error))
    /\ log' = [Ended(l, "error", failure) EXCEPT ![Len(l)].message = error.message]
    /\ NextItem
    /\ UNCHANGED thrown

\* An error of item i reaches the end of the loop body: the catch of the
\* node, or no catch at all.
Caught(error, failure, l) ==
    CASE node = "GoogleZod" -> Throws(error, failure, l)
      [] node = "GoogleHints" ->
            IF continueOnFail THEN Continues(error, failure, l)
            ELSE Throws(error, failure, l)
      [] OTHER ->
            IF continueOnFail THEN Continues(error, failure, l)
            ELSE Throws(WithItemIndex([error EXCEPT !.nodeOp = TRUE], i), failure, l)

\* The start of execute, up to the loop
Begin ==
    /\ pc = "start"
    /\ IF node \in PreLoopNodes
       THEN /\ fetches' = fetches + 1
            /\ IF NoApiKey(apiKey)
               THEN /\ pc' = "thrown"
                    /\ thrown' = NodeOperationError("MissingCredential")
                    /\ UNCHANGED provider
               ELSE /\ pc' = "loop"
                    /\ provider' = apiKey
                    /\ UNCHANGED thrown
       ELSE /\ pc' = "loop"
            /\ UNCHANGED <<fetches, provider, thrown>>
    /\ UNCHANGED <<run, pure, i, item, inflight, text, chunks, returnData, log>>

\* The message ids an item of node n draws
ItemIds(n) ==
    IF n \in {"GoogleGenerativeAI", "GoogleHints"} THEN MessageIds ELSE {<<>>}

\* The loop body of item i, up to its first await of the provider
StartItem ==
    /\ pc = "loop"
    /\ i < nItems
    /\ \E p \in Profiles, model \in Models(node), ids \in ItemIds(node) :
       \E step \in {ItemStep(node, operation, model, p, ids, apiKey, i)},
          started \in {Append(log, [end |-> "pending", failure |-> "", calls |-> 0,
                                    at |-> Len(returnData), stream |-> p.stream,
                                    got |-> <<>>, message |-> "",
                                    object |-> Undefined, cause |-> NoError])} :
           /\ CASE node \in {"VercelAI", "GoogleGenerativeAI", "GoogleMinimal"} ->
                        /\ fetches' = fetches + 1
                        /\ provider' = apiKey
                [] node = "GoogleHints" ->
                        /\ fetches' = fetches + 2
                        /\ provider' = IF NoApiKey(apiKey) THEN provider ELSE apiKey
                [] OTHER -> UNCHANGED <<fetches, provider>>
           /\ CASE step.tag = "call" ->
                        /\ pc' = "await"
                        /\ item' = [p |-> p, model |-> model, ids |-> ids]
                        /\ inflight' = [fn |-> step.fn, request |-> step.request]
                        /\ log' = [started EXCEPT ![Len(started)].calls = 1]
                        /\ UNCHANGED <<i, text, chunks, returnData, thrown>>
                [] step.tag = "throw" -> Caught(step.err, "local", started)
                [] step.tag = "none" ->
                        /\ log' = Ended(started, "none", "")
                        /\ NextItem
                        /\ UNCHANGED <<returnData, thrown>>
    /\ UNCHANGED <<run, pure>>

\* The awaited call resolves
CallResolves ==
    /\ pc = "await"
    /\ \E result \in Results(inflight.fn, i) :
        IF inflight.fn = "streamText"
        THEN /\ pc' = "stream"
             /\ chunks' = Chunks(result.text.v)
             /\ UNCHANGED <<i, item, inflight, text, returnData, log>>
        ELSE /\ returnData' = Append(returnData, Record(node, inflight.fn, result, item.p))
             /\ log' = [Ended(log, "record", "") EXCEPT ![Len(log)].object = result.object]
             /\ NextItem
    /\ UNCHANGED <<run, pure, thrown, provider, fetches>>

\* The awaited call rejects
CallFails ==
    /\ pc = "await"
    /\ \E e \in RemoteErrors :
        IF node = "GoogleHints"
        THEN Caught(InnerCatch(IF inflight.fn = "generateText"
                               THEN TextCatch(e, i) ELSE e, i),
                    "remote", [log EXCEPT ![Len(log)].cause = e])
        ELSE Caught(e, "remote", log)
    /\ UNCHANGED <<run, pure, provider, fetches>>

\* A loop over the text stream that pushes a record for every chunk,
\* whatever the stream option is
StreamChunkAlways ==
    /\ pc = "stream"
    /\ chunks # <<>>
    /\ text' = text \o Head(chunks)
    /\ returnData' = Append(returnData, [text |-> JStr(Head(chunks)), complete |-> FALSE])
    /\ chunks' = Tail(chunks)
    /\ log' = [log EXCEPT ![Len(log)].got = Append(@, Head(chunks))]
    /\ UNCHANGED <<run, pure, pc, i, item, inflight, thrown, provider, fetches>>

\* The text stream gives a chunk
StreamChunk ==
    /\ pc = "stream"
    /\ chunks # <<>>
    /\ text' = text \o Head(chunks)
    /\ returnData' =
         IF item.p.stream
         THEN Append(returnData, [text |-> JStr(Head(chunks)), complete |-> FALSE])
         ELSE returnData
    /\ chunks' = Tail(chunks)
    /\ log' = [log EXCEPT ![Len(log)].got = Append(@, Head(chunks))]
    /\ UNCHANGED <<run, pure, pc, i, item, inflight, thrown, provider, fetches>>

\* A loop over the text stream that is left while the stream has chunks
\* to give
StreamEndEarly ==
    /\ pc = "stream"
    /\ returnData' =
         Append(returnData,
                IF item.p.stream THEN [text |-> JStr(text), complete |-> TRUE]
                ELSE [text |-> JStr(text)])
    /\ log' = Ended(log, "record", "")
    /\ NextItem
    /\ UNCHANGED <<run, pure, thrown, provider, fetches>>

\* An end of the text stream that puts the final record before the records
\* pushed so far
StreamEndUnshift ==
    /\ pc = "stream"
    /\ chunks = <<>>
    /\ returnData' = <<[text |-> JStr(text)]>> \o returnData
    /\ log' = Ended(log, "record", "")
    /\ NextItem
    /\ UNCHANGED <<run, pure, thrown, provider, fetches>>

\* The text stream ends
StreamEnd ==
    /\ pc = "stream"
    /\ chunks = <<>>
    /\ returnData' =
         Append(returnData,
                IF item.p.stream THEN [text |-> JStr(text), complete |-> TRUE]
                ELSE [text |-> JStr(text)])
    /\ log' = Ended(log, "record", "")
    /\ NextItem
    /\ UNCHANGED <<run, pure, thrown, provider, fetches>>

\* The text stream fails
StreamFails ==
    /\ pc = "stream"
    /\ \E e \in RemoteErrors : Caught(e, "remote", log)
    /\ UNCHANGED <<run, pure, provider, fetches>>

\* The loop is over and execute returns [returnData]
Return ==
    /\ pc = "loop"
    /\ i = nItems
    /\ pc' = "done"
    /\ UNCHANGED <<run, pure, i, item, inflight, text, chunks, returnData, thrown,
                   provider, fetches, log>>

\* ------------------------------------------------------------------------
\* The normalizers on their own
\* ------------------------------------------------------------------------

\* The strings of at most n characters of alphabet
Strings(alphabet, n) == UNION {[1..k -> alphabet] : k \in 0..n}

\* The nodes whose execute has a JSON array path for its messages
JsonPathNodes ==
    {"DeepSeek", "Groq", "GoogleGenerativeAi", "GoogleGenerativeAI", "GoogleHints",
     "GoogleZod"}

\* The text generation operation of node n that takes a message list
MessagesOperation(n) == IF n = "GoogleGenerativeAI" THEN "chat" ELSE "generateText"

\* The messages node n passes to its remote call for an item with
\* parameters p; <<>> when the item fails before the call
MessagesOf(n, p, ids) ==
    (LET Passed(step) ==
            IF step.tag = "call" /\ step.request.messages.t = "arr"
            THEN step.request.messages.v ELSE <<>>
     IN Passed(ItemStep(n, MessagesOperation(n), CHOOSE m \in Models(n) : TRUE,
                        p, ids, "sk-1", 0)))

\* The parameters of an item whose structured list is rows
RowsProfile(rows) ==
    [BaseProfile EXCEPT !.inputType = "messages", !.messagesUi = rows]

\* The parameters of an item whose messages are the JSON text json
JsonProfile(json) ==
    [BaseProfile EXCEPT !.inputType = "messages", !.messageAsJson = TRUE,
                        !.messagesJson = json]

\* A text row of the structured list with role and text c
TextRow(role, c) == [Row(role, "text", c) EXCEPT !.systemContent = c]

\* JSON.stringify of a list of messages
MessagesJson(messages) ==
    Stringify(JArr([k \in 1..Len(messages) |-> JObj(messages[k])]))

\* The characters of the texts a row is given, and of the raw texts a
\* model answers with
RowChars == {"a", QUOTE, BACKSLASH}
AnswerChars == {OPEN, CLOSE, SP, "a"}

\* The nodes with the functions formatTextResult and formatObjectResult
FormatterNodes == {"DeepSeek", "Groq", "GoogleGenerativeAi"}

\* The nodes that build the record of a result in place, in execute
InPlaceNodes == {"GoogleMinimal", "GoogleGenerativeAI", "GoogleHints", "GoogleZod"}

\* The provider metadata of a result: the cache metrics of the provider
CacheMetadata ==
    JObj([p \in {"groq", "deepseek"} |->
            JObj([promptCacheHitTokens |-> JNum(1), promptCacheMissTokens |-> JNum(2)])])

\* The provider metadata of a result of the Google provider: with grounding
\* data, and with null in its place, and safety ratings
GoogleMetadata ==
    {JObj([google |-> JObj([groundingMetadata |-> g,
                            safetyRatings |-> JObj([rating |-> JNum(1)])])]) :
        g \in {JObj([webSearchQueries |-> JNum(1)]), JNull}}

\* The results fn can resolve to, with and without reasoning and provider
\* metadata
RawResults(fn) ==
    IF fn = "generateObject"
    THEN {SdkResult(0, <<>>, Undefined, o, m) :
            o \in ResultObjects, m \in {Undefined, CacheMetadata} \cup GoogleMetadata}
    ELSE {SdkResult(0, t, r, Undefined, m) :
            t \in ResultTexts, r \in {Undefined, JStr(<<"r">>)},
            m \in {Undefined, CacheMetadata} \cup GoogleMetadata}

\* The raw text with two reasoning sections: pre <think> r1 </think> mid
\* <think> r2 </think> post
SpanText(a) ==
    a.pre \o <<OPEN>> \o a.r1 \o <<CLOSE>> \o a.mid \o <<OPEN>> \o a.r2 \o <<CLOSE>> \o a.post

\* The nodes whose structured list has file rows
FileRowNodes == {"GoogleGenerativeAi", "GoogleZod", "GoogleGenerativeAI", "GoogleHints"}

\* The values of the MIME type selector of a file row ("" is no value), of
\* its free text, and the binary properties of an input item
MimeSelections == {"", OctetStream, "image/png", "other"}
MimeFreeTexts == {"", "text/csv"}
Binaries ==
    {[data |-> [mimeType |-> m, data |-> "iVBOR"]] :
        m \in {"", "image/png", "application/pdf"}}

\* The file rows of the structured list
FileRows ==
    {[FileRow(source, property) EXCEPT !.mimeType = c[1], !.mimeTypeOther = c[2],
                                       !.content = c[3], !.forceImageType = f[1],
                                       !.forceFileType = f[2]] :
        source \in {"binary", "url"}, property \in {"", "data", "other"},
        c \in MimeSelections \X MimeFreeTexts \X {<<>>, Hi},
        f \in BOOLEAN \X BOOLEAN}

InitNormalize ==
    /\ \/ /\ node \in FileRowNodes
          /\ arg \in {[kind |-> "file", row |-> r, binary |-> b] :
                        r \in FileRows, b \in Binaries}
       \/ /\ node = "Groq"
          /\ arg \in {[kind |-> "spans", pre |-> s[1], r1 |-> s[2], mid |-> s[3],
                        r2 |-> s[4], post |-> s[5]] :
                        s \in [1..5 -> Strings({SP, "a"}, MaxPartLen)]}
       \/ /\ node \in FormatterNodes \cup InPlaceNodes
          /\ arg \in {[kind |-> "result", fn |-> fn, result |-> r,
                        includeRequestBody |-> b[1], useSearchGrounding |-> b[2]] :
                        fn \in {"generateText", "generateObject"},
                        r \in RawResults("generateText") \cup RawResults("generateObject"),
                        b \in BOOLEAN \X BOOLEAN}
          /\ arg.result \in RawResults(arg.fn)
       \/ /\ node \in JsonPathNodes
          /\ arg \in {[kind |-> "row", role |-> r, content |-> c] :
                        r \in Roles, c \in Strings(RowChars, MaxTextLen)}
       \/ /\ node = "Groq"
          /\ arg \in {[kind |-> "text", text |-> t, reasoning |-> r] :
                        t \in Strings(AnswerChars, MaxTextLen),
                        r \in {Undefined, JStr(<<"r">>)}}
    /\ out = NoOut
    /\ now = 0
    /\ pc = "normalize"
    /\ continueOnFail = FALSE
    /\ apiKey = "sk-1"
    /\ operation = MessagesOperation(node)
    /\ nItems = 0
    /\ i = 0
    /\ item = NoItem
    /\ inflight = NoCall
    /\ text = <<>>
    /\ chunks = <<>>
    /\ returnData = <<>>
    /\ thrown = NoError
    /\ provider = NoProvider
    /\ fetches = 0
    /\ log = <<>>

\* A row is normalized, the messages it gave are written as a JSON array,
\* and the JSON array is normalized.
NormalizeRow ==
    /\ pc = "normalize"
    /\ arg.kind = "row"
    /\ \E ids \in ItemIds(node), again \in ItemIds(node) :
       \E fromRow \in {MessagesOf(node, RowsProfile(<<TextRow(arg.role, arg.content)>>), ids)} :
          out' = [kind |-> "messages", fromRow |-> fromRow,
                  fromJson |-> MessagesOf(node, JsonProfile(MessagesJson(fromRow)), again)]
    /\ pc' = "normalized"
    /\ UNCHANGED <<run, arg, now, i, item, inflight, text, chunks, returnData,
                   thrown, provider, fetches, log>>

\* formatTextResult of the Groq node is applied to a result whose text is
\* arg.text
FormatText ==
    /\ pc = "normalize"
    /\ arg.kind = "text"
    /\ out' = [kind |-> "record",
               json |-> formatTextResultGroq(
                            SdkResult(0, arg.text, arg.reasoning, Undefined, Undefined),
                            FALSE)]
    /\ pc' = "normalized"
    /\ UNCHANGED <<run, arg, now, i, item, inflight, text, chunks, returnData,
                   thrown, provider, fetches, log>>

\* The output normalizer of the node is applied to the result arg.result
FormatResult ==
    /\ pc = "normalize"
    /\ arg.kind = "result"
    /\ out' = [kind |-> "once",
               first |-> Record(node, arg.fn, arg.result,
                                [BaseProfile EXCEPT !.includeRequestBody =
                                                        arg.includeRequestBody,
                                                    !.useSearchGrounding =
                                                        arg.useSearchGrounding])]
    /\ now' = now + 1
    /\ pc' = "again"
    /\ UNCHANGED <<run, arg, i, item, inflight, text, chunks, returnData, thrown,
                   provider, fetches, log>>

\* The output normalizer is applied to the same result a second time
FormatAgain ==
    /\ pc = "again"
    /\ out' = [kind |-> "twice", first |-> out.first,
               second |-> Record(node, arg.fn, arg.result,
                                 [BaseProfile EXCEPT !.includeRequestBody =
                                                         arg.includeRequestBody,
                                                     !.useSearchGrounding =
                                                         arg.useSearchGrounding])]
    /\ now' = now + 1
    /\ pc' = "normalized"
    /\ UNCHANGED <<run, arg, i, item, inflight, text, chunks, returnData, thrown,
                   provider, fetches, log>>

\* formatTextResult of the Groq node is applied to a result whose text has
\* two reasoning sections
FormatSpans ==
    /\ pc = "normalize"
    /\ arg.kind = "spans"
    /\ out' = [kind |-> "extracted",
               json |-> formatTextResultGroq(
                            SdkResult(0, SpanText(arg), Undefined, Undefined, Undefined),
                            FALSE)]
    /\ pc' = "normalized"
    /\ UNCHANGED <<run, arg, now, i, item, inflight, text, chunks, returnData,
                   thrown, provider, fetches, log>>

\* The item whose structured list is the one file row arg.row is processed
\* up to its remote call
BuildFileRow ==
    /\ pc = "normalize"
    /\ arg.kind = "file"
    /\ \E ids \in ItemIds(node) :
          out' = [kind |-> "built",
                  step |-> ItemStep(node, operation, CHOOSE m \in Models(node) : TRUE,
                                    [RowsProfile(<<arg.row>>) EXCEPT !.binary = arg.binary],
                                    ids, apiKey, 0)]
    /\ pc' = "normalized"
    /\ UNCHANGED <<run, arg, now, i, item, inflight, text, chunks, returnData,
                   thrown, provider, fetches, log>>

NextNormalize ==
    \/ NormalizeRow
    \/ BuildFileRow
    \/ FormatText
    \/ FormatSpans
    \/ FormatResult
    \/ FormatAgain

SpecNormalize == InitNormalize /\ [][NextNormalize]_vars

Next ==
    \/ Begin
    \/ StartItem
    \/ CallResolves
    \/ CallFails
    \/ StreamChunk
    \/ StreamEnd
    \/ StreamFails
    \/ Return

Spec == Init /\ [][Next]_vars

\* ------------------------------------------------------------------------
\* The claims
\* ------------------------------------------------------------------------

\* execute has thrown while it processed an item
ThrownInLoop == pc = "thrown" /\ log # <<>>

\* C1: in the DeepSeek and Groq nodes with continueOnFail enabled, when
\* execute returns after n items none of which failed before its remote
\* call, there are exactly n records, record k has an error field exactly
\* when the remote call of item k failed, and every other record k is the
\* result of item k (its response id is that of the call of item k).
C1_OneRecordPerItemInOrder ==
    (/\ node \in {"DeepSeek", "Groq"}
     /\ continueOnFail
     /\ pc = "done"
     /\ \A k \in 1..Len(log) : log[k].failure # "local")
    => /\ Len(returnData) = nItems
       /\ \A k \in 1..Len(returnData) :
             /\ ("error" \in DOMAIN returnData[k]) <=> (log[k].failure = "remote")
             /\ ("error" \notin DOMAIN returnData[k])
                   => Field(returnData[k].response, "id") = JNum(k - 1)

\* C2: with continueOnFail disabled, the error execute throws while it
\* processes an item carries the index of that item, the first one to fail.
C2_ThrownErrorCarriesItemIndex ==
    (ThrownInLoop /\ ~continueOnFail) => thrown.itemIndex = i

\* C3: with continueOnFail disabled a failing item k ends execute with a
\* throw, with no item after k started and no call left in flight; with
\* continueOnFail enabled no failure of an item ends execute, which returns
\* only after every item was started.
C3_OnlyContinueOnFailKeepsGoing ==
    /\ ThrownInLoop =>
          /\ ~continueOnFail
          /\ Len(log) = i + 1
          /\ log[Len(log)].end = "thrown"
          /\ inflight = NoCall
    /\ (pc = "done") => Len(log) = nItems

\* C4: with continueOnFail enabled, a failure raised before the remote call
\* of item k (parameter validation, input normalization, schema validation)
\* never makes execute throw, in any node: the item ends with an error
\* record.
C4_LocalFailureIsCaught ==
    /\ (continueOnFail /\ ThrownInLoop) => log[Len(log)].failure # "local"
    /\ continueOnFail =>
          \A k \in 1..Len(log) :
             (log[k].failure = "local") => log[k].end = "error"

\* C5: while the stored credential has an empty or absent apiKey, no
\* provider client is made and no remote call is issued, in any node.
C5_NoProviderWithoutApiKey ==
    NoApiKey(apiKey) => (provider = NoProvider /\ inflight = NoCall)

\* C6: a remote call is only ever issued with maxTokens unset or at least 1.
C6_CallHasPositiveMaxTokens ==
    (inflight # NoCall) =>
        \/ inflight.request.maxTokens = Undefined
        \/ inflight.request.maxTokens.v >= 1

\* The value has an element that is an object whose role is outside
\* {system, user, assistant}
HasForeignRole(val) ==
    /\ val.t = "arr"
    /\ \E k \in 1..Len(val.v) :
          /\ val.v[k].t = "obj"
          /\ "role" \in DOMAIN val.v[k].v
          /\ ~IsRole(val.v[k].v.role)

\* The item in progress takes its messages from the JSON text
ReadsMessagesJson ==
    /\ node \in JsonPathNodes
    /\ item.p.messageAsJson
    /\ IF node = "GoogleGenerativeAI" THEN operation = "chat"
       ELSE item.p.inputType = "messages"
    /\ node = "GoogleHints" => operation = "generateText"

\* C7: no remote call is issued for an item whose messages JSON parses and
\* holds an element with a role outside {system, user, assistant}.
C7_ForeignRoleIsRejected ==
    (pc = "await" /\ ReadsMessagesJson)
    => ~HasForeignRole(JsonParse(item.p.messagesJson).val)

\* C8: a text row with role r and text c normalizes to the one message
\* {role: r, content: c}, and that message written as a JSON array and
\* normalized through the JSON path is the same message, with no other
\* field.
C8_RowRoundTrip ==
    (out.kind = "messages") =>
        /\ out.fromRow = <<[role |-> JStr(<<arg.role>>), content |-> JStr(arg.content)]>>
        /\ out.fromJson = out.fromRow

\* The nodes whose prompt mode passes prompt and system to the remote call
PromptSystemNodes == {"DeepSeek", "Groq", "GoogleGenerativeAi", "GoogleZod"}

\* The item in flight is in prompt mode
InPromptMode ==
    /\ pc = "await"
    /\ CASE node \in PromptSystemNodes -> item.p.inputType = "prompt"
         [] node = "GoogleHints" ->
               operation = "generateObject" \/ item.p.inputType = "prompt"
         [] node = "GoogleGenerativeAI" -> operation \in {"complete", "generateObject"}
         [] OTHER -> operation = "complete"

\* C9: for an item in prompt mode, the prompt the remote call gets is the
\* prompt parameter, character for character, as its prompt or as the
\* content of its single user message; and where the node has a system
\* parameter the call gets it as it is.
C9_PromptIsPassedVerbatim ==
    InPromptMode =>
        /\ \/ inflight.request.prompt = JStr(item.p.prompt)
           \/ /\ inflight.request.prompt = Undefined
              /\ inflight.request.messages.t = "arr"
              /\ Len(inflight.request.messages.v) = 1
              /\ inflight.request.messages.v[1].role = JStr(<<"user">>)
              /\ inflight.request.messages.v[1].content = JStr(item.p.prompt)
        /\ node \in PromptSystemNodes =>
              /\ inflight.request.prompt = JStr(item.p.prompt)
              /\ inflight.request.system = JStr(item.p.system)

C9_PaddedPromptInFlight ==
    /\ InPromptMode
    /\ node = "DeepSeek"
    /\ item.p.prompt = Padded
    /\ inflight.request.prompt = JStr(Padded)
    /\ inflight.request.system = JStr(<<"s">>)

\* The places k of arg.text that hold </think>, when arg.text starts with
\* <think>
Closings ==
    IF arg.text # <<>> /\ arg.text[1] = OPEN
    THEN {k \in 2..Len(arg.text) : arg.text[k] = CLOSE}
    ELSE {}

\* The text between the opening marker and the closing marker at k, and
\* the text after it
Between(k) == SubSeq(arg.text, 2, k - 1)
After(k) == SubSeq(arg.text, k + 1, Len(arg.text))

\* The raw text has neither marker
Markerless == \A k \in 1..Len(arg.text) : arg.text[k] \notin {OPEN, CLOSE}

\* C10 as stated: for a raw text "<think>" R "</think>" A the record has
\* reasoning R and text A; for a raw text without the markers reasoning is
\* what the SDK returned and text is the raw text.
C10_ReasoningAndAnswerAsWritten ==
    (out.kind = "record") =>
        /\ \A k \in Closings :
              /\ out.json.reasoning = JStr(Between(k))
              /\ out.json.text = JStr(After(k))
        /\ Markerless =>
              /\ out.json.reasoning = arg.reasoning
              /\ out.json.text = JStr(arg.text)

\* C10 amended: for a raw text "<think>" R "</think>" A where R holds no
\* "</think>", the record has reasoning R and text A, each without the
\* white space around it; for a raw text without the markers reasoning is
\* what the SDK returned and text is the raw text.
C10_ReasoningAndAnswerTrimmed ==
    (out.kind = "record") =>
        /\ \A k \in Closings :
              (\A j \in Closings : j >= k) =>
                  /\ out.json.reasoning = JStr(Trim(Between(k)))
                  /\ out.json.text = JStr(Trim(After(k)))
        /\ Markerless =>
              /\ out.json.reasoning = arg.reasoning
              /\ out.json.text = JStr(arg.text)

C10_PaddedReasoningExtracted ==
    /\ out.kind = "record"
    /\ arg.text = <<OPEN, SP, "a", CLOSE>>
    /\ arg.reasoning = Undefined
    /\ out.json.reasoning = JStr(<<"a">>)
    /\ out.json.text = JStr(<<>>)

ItemRecords(k) ==
    SubSeq(returnData, log[k].at + 1,
           IF k < Len(log) THEN log[k + 1].at ELSE Len(returnData))

\* c1 + ... + cm
RECURSIVE Concat(_)
Concat(cs) == IF cs = <<>> THEN <<>> ELSE Head(cs) \o Concat(Tail(cs))

\* C12: in the VercelAI node an item whose stream gave the chunks c1..cm
\* and ended has, with the stream option, the m records {text: ci,
\* complete: false} in chunk order followed by the one record {text:
\* c1+...+cm, complete: true}; without the option it has one record, whose
\* text is c1+...+cm, and no chunk record.
C12_ChunkRecordsThenFinalRecord ==
    (node = "VercelAI") =>
        \A k \in 1..Len(log) :
            (log[k].end = "record") =>
                IF log[k].stream
                THEN /\ Len(ItemRecords(k)) = Len(log[k].got) + 1
                     /\ \A j \in 1..Len(log[k].got) :
                           ItemRecords(k)[j] =
                               [text |-> JStr(log[k].got[j]), complete |-> FALSE]
                     /\ ItemRecords(k)[Len(log[k].got) + 1] =
                           [text |-> JStr(Concat(log[k].got)), complete |-> TRUE]
                ELSE /\ Len(ItemRecords(k)) = 1
                     /\ ItemRecords(k)[1].text = JStr(Concat(log[k].got))
                     /\ "complete" \notin DOMAIN ItemRecords(k)[1]

C12_TwoItemsStreamed ==
    /\ node = "VercelAI"
    /\ pc = "done"
    /\ Len(log) = 2
    /\ log[1].end = "record" /\ log[1].stream /\ log[1].got = <<<<"h">>, <<"i">>>>
    /\ log[2].end = "record" /\ ~log[2].stream /\ log[2].got = <<<<"a">>>>
    /\ Len(returnData) = 4
    /\ returnData[4] = [text |-> JStr(<<"a">>)]
    /\ returnData[3] = [text |-> JStr(Hi), complete |-> TRUE]

\* C13: records are only ever appended, and only while an item is
\* processed: a step that adds records keeps every record pushed before it
\* in place, happens while item i (the last one started) is processed, and
\* a record with a response is that of the call of item i. So every record
\* of item i precedes every record of item j for i < j, chunk records
\* included.
C13_RecordsFollowItemOrder ==
    [][(returnData' # returnData) =>
          /\ Len(returnData') > Len(returnData)
          /\ SubSeq(returnData', 1, Len(returnData)) = returnData
          /\ Len(log') = i + 1
          /\ log'[i + 1].at <= Len(returnData)
          /\ \A k \in 1..i : log'[k].end # "pending" /\ log'[k].at <= log'[k + 1].at
          /\ \A k \in (Len(returnData) + 1)..Len(returnData') :
                ("response" \in DOMAIN returnData'[k])
                    => Field(returnData'[k].response, "id") = JNum(i)]_vars

C13_SecondItemStreamsAfterFirst ==
    /\ node = "VercelAI"
    /\ pc = "stream"
    /\ Len(log) = 2
    /\ log[1].end = "record" /\ log[1].stream
    /\ log[2].stream /\ log[2].at = 3 /\ log[2].got = <<<<"h">>>>
    /\ returnData[3].complete
    /\ returnData[4] = [text |-> JStr(<<"h">>), complete |-> FALSE]

\* C14: in the output of a run that continues on failure, an item that
\* failed has no record other than its error record, also when its stream
\* failed after it gave chunks.
C14_FailedItemLeavesNoResult ==
    \A k \in 1..Len(log) :
        (log[k].end = "error") =>
            /\ Len(ItemRecords(k)) = 1
            /\ "error" \in DOMAIN ItemRecords(k)[1]

\* C15: with continueOnFail enabled, in every node, an item that failed
\* has exactly one record, and that record is {error: message} with the
\* message of the failure and nothing else.
C15_OneErrorRecordPerFailingItem ==
    continueOnFail =>
        \A k \in 1..Len(log) :
            (log[k].failure # "") =>
                /\ log[k].end = "error"
                /\ ItemRecords(k) = <<[error |-> log[k].message]>>

\* C16: in the nodes that do not stream, an item that was processed
\* without an error has exactly one record, whatever its operation and
\* model are.
C16_OneRecordPerItemWithoutError ==
    (node # "VercelAI") =>
        \A k \in 1..Len(log) :
            (log[k].end # "pending" /\ log[k].failure = "") =>
                Len(ItemRecords(k)) = 1

\* C17: no item issues more than one remote call; an item whose call
\* failed issued that one call; and an item that was processed without an
\* error issued exactly one call.
C17_ExactlyOneCallPerItem ==
    \A k \in 1..Len(log) :
        /\ log[k].calls <= 1
        /\ (log[k].failure = "remote") => log[k].calls = 1
        /\ (log[k].end # "pending" /\ log[k].failure = "") => log[k].calls = 1

\* C18: in every node, generateObject is only ever called for an item
\* whose schema text is valid JSON and a valid JSON Schema.
C18_InvalidSchemaIsNeverSent ==
    (pc = "await" /\ inflight.fn = "generateObject") =>
        /\ JsonParse(item.p.schema).ok
        /\ validateSchema(JsonParse(item.p.schema).val)

\* The field of a record that holds the generated object: object, or
\* generatedObject in the nodes that build the record in place
ObjectOf(record) ==
    IF "object" \in DOMAIN record THEN record.object ELSE record.generatedObject

CarriesReasoning(record, r) ==
    /\ "reasoning" \in DOMAIN record
    /\ \/ record.reasoning = r
       \/ Field(record.reasoning, "output") = r

\* The usage of the record holds the cache hit and miss counts of metrics
CarriesCacheMetrics(record, metrics) ==
    \E key \in {"cacheMetrics", "cache_metrics"} \cap DOMAIN record.usage.v :
        /\ Field(record.usage.v[key], "promptCacheHitTokens")
              = Field(metrics, "promptCacheHitTokens")
        /\ Field(record.usage.v[key], "promptCacheMissTokens")
              = Field(metrics, "promptCacheMissTokens")

\* C20: the record formatTextResult of the DeepSeek node makes of a result
\* with reasoning and cache metrics holds that reasoning and, in its usage,
\* the cache hit and miss token counts.
C20_DeepSeekRecordHasReasoningAndCache ==
    (/\ node = "DeepSeek"
     /\ out.kind = "once"
     /\ arg.fn = "generateText"
     /\ arg.result.reasoning # Undefined
     /\ arg.result.experimental_providerMetadata # Undefined)
    => /\ CarriesReasoning(out.first, arg.result.reasoning)
       /\ CarriesCacheMetrics(out.first,
                              Field(arg.result.experimental_providerMetadata, "deepseek"))

\* The second reasoning section of arg and what surrounds it
LaterSpan == arg.mid \o <<OPEN>> \o arg.r2 \o <<CLOSE>> \o arg.post

\* C21 as stated: for a raw text pre <think> r1 </think> mid <think> r2
\* </think> post, reasoning is r1, and text is the raw text with the first
\* section, and nothing else, taken out.
C21_FirstSpanOnlyAsWritten ==
    (out.kind = "extracted") =>
        /\ out.json.reasoning = JStr(arg.r1)
        /\ out.json.text = JStr(arg.pre \o LaterSpan)

\* C21 amended: reasoning is r1 without the white space around it, and
\* text is the raw text with the first section and the white space after it
\* taken out, without the white space around it; the second section stays
\* in text as it is.
C21_FirstSpanOnlyTrimmed ==
    (out.kind = "extracted") =>
        /\ out.json.reasoning = JStr(Trim(arg.r1))
        /\ out.json.text = JStr(Trim(arg.pre \o TrimStart(LaterSpan)))
        /\ \E k \in 1..Len(out.json.text.v) :
              SubSeq(out.json.text.v, k, k + Len(arg.r2) + 1)
                  = <<OPEN>> \o arg.r2 \o <<CLOSE>>

C21_SecondSpanLeftInText ==
    /\ out.kind = "extracted"
    /\ arg.pre = <<"a">> /\ arg.r1 = <<"a">> /\ arg.mid = <<SP>>
    /\ arg.r2 = <<"a">> /\ arg.post = <<"a">>
    /\ out.json.reasoning = JStr(<<"a">>)
    /\ out.json.text = JStr(<<"a", OPEN, "a", CLOSE, "a">>)

\* At most one remote call or stream is in flight, that of the last item
\* started, and every item before it has ended
OneInFlight ==
    /\ (inflight # NoCall) <=> (pc \in {"await", "stream"})
    /\ (inflight # NoCall) => (Len(log) = i + 1 /\ log[i + 1].end = "pending")
    /\ \A k \in 1..Len(log) : (log[k].end = "pending") => (k = Len(log))

\* An item starts only when no call is in flight and no stream has chunks
\* to give, after every item before it has ended and the records of those
\* that ended with a record are appended; and a stream ends with its record
\* only when it gave all its chunks
StartsAfterEnd ==
    /\ (Len(log') > Len(log)) =>
          (/\ inflight = NoCall /\ chunks = <<>> /\ pc = "loop"
           /\ Len(log') = Len(log) + 1
           /\ \A k \in 1..Len(log) :
                 /\ log[k].end # "pending"
                 /\ (log[k].end = "record") => (Len(ItemRecords(k)) >= 1))
    /\ (pc = "stream" /\ pc' = "loop") =>
          (chunks = <<>> \/ log'[Len(log)].end # "record")

\* C22: processing is sequential: at most one remote call or stream is in
\* flight at any time, and the call of item N+1 is issued only after the
\* call of item N resolved or failed, its stream was consumed to the end,
\* and its records were appended.
C22_OneCallInFlightAtATime == []OneInFlight /\ [][StartsAfterEnd]_vars

C22_SecondCallAfterFirstRecord ==
    /\ node = "DeepSeek"
    /\ pc = "await"
    /\ i = 1
    /\ Len(log) = 2
    /\ log[1].end = "record" /\ log[1].calls = 1
    /\ Len(returnData) = 1
    /\ inflight.fn = "generateText"

\* The attachment part of the message built from the file row
AttachmentPart ==
    out.step.request.messages.v[1].content.v[Len(out.step.request.messages.v[1].content.v)]

\* The MIME type the decision chain gives the file row arg.row: the
\* selector when it names a type, else the free text when the selector is
\* 'other', else the declared type of the binary property, else
\* application/octet-stream
DecidedMimeType ==
    IF arg.row.mimeType \notin {"", "other", OctetStream} THEN arg.row.mimeType
    ELSE IF arg.row.mimeType = "other" /\ arg.row.mimeTypeOther # ""
    THEN arg.row.mimeTypeOther
    ELSE IF arg.row.fileDataSource = "binary" /\ arg.binary.data.mimeType # ""
    THEN arg.binary.data.mimeType
    ELSE OctetStream

\* C23: the file part buildInput makes of a file row has the MIME type of
\* the decision chain, and never the literal 'other' when the free text is
\* empty.
C23_MimeTypeFollowsDecisionChain ==
    (/\ out.kind = "built"
     /\ node \in {"GoogleGenerativeAi", "GoogleZod"}
     /\ out.step.tag = "call")
    => /\ AttachmentPart.v.mimeType = JStr(<<DecidedMimeType>>)
       /\ (arg.row.mimeTypeOther = "") => AttachmentPart.v.mimeType # JStr(<<"other">>)

\* The attachment part is an image part
IsImagePart == AttachmentPart.v.type = JStr(<<"image">>)

\* C24: the attachment part made of a file row with a binary source is an
\* image part when forceImageType is set; a file part when forceFileType
\* alone is set; and with neither set an image part exactly when the
\* declared MIME type of the binary property starts with 'image/'.
C24_ForceFlagsDecideThePart ==
    (/\ out.kind = "built"
     /\ arg.row.fileDataSource = "binary"
     /\ out.step.tag = "call")
    => /\ arg.row.forceImageType => IsImagePart
       /\ (arg.row.forceFileType /\ ~arg.row.forceImageType) => ~IsImagePart
       /\ (~arg.row.forceFileType /\ ~arg.row.forceImageType)
             => (IsImagePart <=> IsImageMimeType(arg.binary.data.mimeType))

\* C25: a file row with a binary source that names a binary property the
\* input item does not have makes the item fail with the missing binary
\* field error before any message list is made and any remote call issued.
C25_MissingBinaryFieldFails ==
    (/\ out.kind = "built"
     /\ arg.row.fileDataSource = "binary"
     /\ arg.row.fileContent # ""
     /\ arg.row.fileContent \notin DOMAIN arg.binary)
    => /\ out.step.tag = "throw"
       /\ out.step.err.message = "MissingBinaryField"
       /\ out.step.request = Undefined

C25_AbsentPropertyRejected ==
    /\ out.kind = "built"
    /\ node = "GoogleGenerativeAi"
    /\ arg.row.fileDataSource = "binary"
    /\ arg.row.fileContent = "other"
    /\ arg.binary.data.mimeType = "image/png"
    /\ out.step.tag = "throw"
    /\ out.step.err.message = "MissingBinaryField"

\* C26: in every message list a remote call gets, a message with role
\* system has a string as its content.
C26_SystemContentIsText ==
    (pc = "await" /\ inflight.request.messages.t = "arr") =>
        \A k \in 1..Len(inflight.request.messages.v) :
            (/\ "role" \in DOMAIN inflight.request.messages.v[k]
             /\ inflight.request.messages.v[k].role = JStr(<<"system">>))
            => inflight.request.messages.v[k].content.t = "str"

\* The value of the top-level field k of a record, or undefined
TopLevel(record, k) == IF k \in DOMAIN record THEN record[k] ELSE Undefined

\* The Google part of the provider metadata of the result arg.result
GoogleOf(result) == Field(result.experimental_providerMetadata, "google")

\* C27: the record a Google node makes of a result with Google provider
\* metadata, search grounding being enabled, has the top-level fields
\* groundingMetadata and safetyRatings of that metadata; with search
\* grounding disabled the record has neither field.
C27_GroundingSurfacedWhenEnabled ==
    (/\ out.kind \in {"once", "twice"}
     /\ arg.kind = "result"
     /\ node \in InPlaceNodes \cup {"GoogleGenerativeAi"})
    => /\ (arg.useSearchGrounding /\ GoogleOf(arg.result) # Undefined)
          => /\ {"groundingMetadata", "safetyRatings"} \subseteq DOMAIN out.first
             /\ TopLevel(out.first, "groundingMetadata")
                   = Field(GoogleOf(arg.result), "groundingMetadata")
             /\ TopLevel(out.first, "safetyRatings")
                   = Field(GoogleOf(arg.result), "safetyRatings")
       /\ (~arg.useSearchGrounding)
          => {"groundingMetadata", "safetyRatings"} \cap DOMAIN out.first = {}

\* C28: in one run of execute the credential is fetched once: never a second
\* time, and once by the time a remote call is made; and every remote call
\* goes through a provider client made with the key of the stored credential.
C28_CredentialFetchedOnce ==
    /\ fetches <= 1
    /\ (pc \in {"await", "stream"}) => fetches = 1
    /\ (pc \in {"await", "stream"}) => provider = apiKey

\* The hint for the cause of a failed call, or "" where there is none
HintFor(cause) ==
    CASE cause.code = "ENOTFOUND" -> "Could not reach Google AI API"
      [] cause.code = "CERT_HAS_EXPIRED" -> "SSL Certificate error"
      [] cause.code = "ECONNREFUSED" -> "Failed to connect to Google AI API"
      [] cause.code = "ETIMEDOUT" -> "Connection to Google AI API timed out"
      [] cause.code = "" /\ cause.message = "api key" -> "Invalid or missing API key"
      [] OTHER -> ""

\* C29: when the text-generation call of the error-hint Google node fails
\* with a transport error, the message of the error the item ends with is
\* the hint for the cause: DNS failure, expired certificate, refused
\* connection, timeout or api key.
C29_TransportErrorGetsItsHint ==
    (node = "GoogleHints" /\ operation = "generateText") =>
        \A k \in 1..Len(log) :
            (/\ log[k].failure = "remote"
             /\ ~log[k].cause.response
             /\ HintFor(log[k].cause) # "")
            => log[k].message = HintFor(log[k].cause)

\* The nodes whose execute passes on what the function buildInput returns
BuildInputNodes == {"DeepSeek", "Groq", "GoogleGenerativeAi"}

\* C30: no remote call gets both a prompt and a message list; and the call
\* of a node with the function buildInput gets, in prompt mode, a prompt and
\* a system text and no message list and, in messages mode, a message list
\* and neither prompt nor system text.
C30_OneInputFormPerCall ==
    (pc \in {"await", "stream"}) =>
        /\ ~(inflight.request.prompt # Undefined /\ inflight.request.messages # Undefined)
        /\ (node \in BuildInputNodes) =>
              IF item.p.inputType = "prompt"
              THEN /\ inflight.request.prompt # Undefined
                   /\ inflight.request.system # Undefined
                   /\ inflight.request.messages = Undefined
              ELSE /\ inflight.request.messages # Undefined
                   /\ inflight.request.prompt = Undefined
                   /\ inflight.request.system = Undefined

C30_MessageListSentWithoutPrompt ==
    /\ pc = "await"
    /\ node = "DeepSeek"
    /\ item.p.inputType = "messages"
    /\ inflight.request.messages.t = "arr"
    /\ Len(inflight.request.messages.v) > 0
    /\ inflight.request.prompt = Undefined
    /\ inflight.request.system = Undefined

====
